---- MODULE Spec2Model ----
(***************************************************************************)
(* Model of src/src/mini_uci_engine.py: a UCI command loop (uci_loop)      *)
(* that owns one board and one transposition table and runs the search     *)
(* (think_thread_fn -> search_root -> negamax) in a separate thread.       *)
(*                                                                         *)
(* The rules engine (python-chess) is an external collaborator.  It is     *)
(* represented by a small finite game: a table of positions with, for      *)
(* each, the side to move, the pieces on the board, the legal moves in     *)
(* generation order, which of them capture, the successor positions and    *)
(* whether the game is over.  A board is the current position plus the     *)
(* stack of saved positions that push()/pop() maintain.                    *)
(*                                                                         *)
(* Atomicity: a command handler is one step, except that join() is a       *)
(* blocking wait and therefore a step boundary.  The search thread takes   *)
(* one step per statement group of search_root; one call of negamax from   *)
(* the root is one step (the recursion below it is computed by the         *)
(* operator negamax).                                                      *)
(*                                                                         *)
(* Specifications: Spec (any input lines), SpecControl (the lines that     *)
(* start, stop or disturb a search), SpecNegamax (negamax called directly, *)
(* call after call, on one table), SpecProbe (one direct call on a table   *)
(* holding one given entry) and SpecRoot (a search thread alone on a given *)
(* position and table).                                                    *)
(***************************************************************************)
EXTENDS Integers, Sequences, FiniteSets, TLC

\* ---------------------------------------------------------------- bounds
\* number of command lines a session sends, any line of Lines
MaxCmds == 2
\* number of command lines a session sends, search control lines only
MaxControlCmds == 3
\* largest D given in "go depth D", and largest depth of a direct call of
\* negamax
MaxDepth == 2
\* number of direct calls of negamax in a row
MaxCalls == 2

\* ------------------------------------------------------------- constants
None == "None"
WHITE == "W"
BLACK == "B"

PIECE_VALUES ==
  [P |-> 100, N |-> 320, B |-> 330, R |-> 500, Q |-> 900, K |-> 20000]

\* PST is [0]*64 for every piece type
PST(piece_type) == 0

EXACT == 0
ALPHA == 1
BETA == 2

\* initial max_score / best_score
MinScore == -9999999
\* root window
RootAlpha == -10000000
RootBeta == 10000000
\* search_args.get("depth", 4)
DefaultDepth == 4

\* ------------------------------------------------- the rules engine (game)
Pc(t, c) == [type |-> t, color |-> c]

StartPieces == <<Pc("K", WHITE), Pc("R", WHITE), Pc("P", WHITE),
                 Pc("K", BLACK), Pc("N", BLACK), Pc("P", BLACK)>>
\* StartPieces after White captured the knight
SbPieces == <<Pc("K", WHITE), Pc("R", WHITE), Pc("P", WHITE),
              Pc("K", BLACK), Pc("P", BLACK)>>
\* StartPieces after Black captured the pawn
SadPieces == <<Pc("K", WHITE), Pc("R", WHITE),
               Pc("K", BLACK), Pc("N", BLACK), Pc("P", BLACK)>>
\* 6k1/5ppp/8/p7/1P6/8/8/4R1K1 w - - 0 1 : Re8 mates, bxa5 wins a pawn
M1Pieces == <<Pc("K", WHITE), Pc("R", WHITE), Pc("P", WHITE),
              Pc("K", BLACK), Pc("P", BLACK), Pc("P", BLACK),
              Pc("P", BLACK), Pc("P", BLACK)>>
M1bPieces == <<Pc("K", WHITE), Pc("R", WHITE), Pc("P", WHITE),
               Pc("K", BLACK), Pc("P", BLACK), Pc("P", BLACK),
               Pc("P", BLACK)>>
Pos(turn, pieces, moves, captures, next, over, mate) ==
  [turn |-> turn, pieces |-> pieces, moves |-> moves, captures |-> captures,
   next |-> next, over |-> over, mate |-> mate]

NoNext == [m \in {} |-> None]

\* "start" is chess.STARTING_FEN; "m1" and "m1a" are the positions a
\* "position fen ..." command can set up; the rest are reached by moves.
\* In "w" White has no capture: both moves lead, at once or after two more
\* moves, to "sa", where Black takes the pawn.
Game ==
  [start |-> Pos(WHITE, StartPieces, <<"a", "b">>, {"b"},
                 [a |-> "sa", b |-> "sb"], FALSE, FALSE),
   sa    |-> Pos(BLACK, StartPieces, <<"c", "d">>, {"d"},
                 [c |-> "sac", d |-> "sad"], FALSE, FALSE),
   sb    |-> Pos(BLACK, SbPieces, <<"c">>, {},
                 [c |-> "sbc"], FALSE, FALSE),
   sac   |-> Pos(WHITE, StartPieces, <<"b">>, {"b"},
                 [b |-> "sabc"], FALSE, FALSE),
   sbc   |-> Pos(WHITE, SbPieces, <<"a">>, {},
                 [a |-> "sabc"], FALSE, FALSE),
   sabc  |-> Pos(BLACK, SbPieces, <<>>, {}, NoNext, TRUE, FALSE),
   sad   |-> Pos(WHITE, SadPieces, <<>>, {}, NoNext, TRUE, FALSE),
   m1    |-> Pos(WHITE, M1Pieces, <<"a", "b">>, {"b"},
                 [a |-> "m1a", b |-> "m1b"], FALSE, FALSE),
   m1a   |-> Pos(BLACK, M1Pieces, <<>>, {}, NoNext, TRUE, TRUE),
   m1b   |-> Pos(BLACK, M1bPieces, <<"c">>, {},
                 [c |-> "m1bc"], FALSE, FALSE),
   m1bc  |-> Pos(WHITE, M1bPieces, <<>>, {}, NoNext, TRUE, FALSE),
   w     |-> Pos(WHITE, StartPieces, <<"a", "b">>, {},
                 [a |-> "sa", b |-> "wb"], FALSE, FALSE),
   wb    |-> Pos(BLACK, StartPieces, <<"c">>, {},
                 [c |-> "wbc"], FALSE, FALSE),
   wbc   |-> Pos(WHITE, StartPieces, <<"a">>, {},
                 [a |-> "sa"], FALSE, FALSE)]

Positions == DOMAIN Game
STARTING_FEN == "start"
FenPositions == {"m1", "m1a"}
\* the move tokens a command line can carry; "x" is no legal move anywhere
MoveTokens == {"a", "b", "c", "d", "x"}

Range(s) == {s[i] : i \in 1..Len(s)}

legal_moves(b) == Game[b.pos].moves
is_capture(b, m) == m \in Game[b.pos].captures
is_game_over(b) == Game[b.pos].over
is_checkmate(p) == Game[p].mate
IsLegal(b, m) == m \in Range(legal_moves(b))

\* board.push(mv): save the state, make the move
push(b, m) == [pos |-> Game[b.pos].next[m], stack |-> Append(b.stack, b.pos)]
\* board.pop(): restore the state saved by the last push
pop(b) == [pos |-> b.stack[Len(b.stack)],
           stack |-> SubSeq(b.stack, 1, Len(b.stack) - 1)]
\* board.set_fen(fen) / board.reset(): new position, cleared stack
set_fen(p) == [pos |-> p, stack |-> <<>>]

\* ---------------------------------------------------------------- evaluate
RECURSIVE MaterialSum(_, _)
MaterialSum(pieces, i) ==
  IF i > Len(pieces) THEN 0
  ELSE LET piece == pieces[i]
           val == PIECE_VALUES[piece.type] + PST(piece.type)
       IN (IF piece.color = WHITE THEN val ELSE -val)
          + MaterialSum(pieces, i + 1)

evaluate(b) ==
  LET score == MaterialSum(Game[b.pos].pieces, 1)
  IN IF Game[b.pos].turn = WHITE THEN score ELSE -score

\* ------------------------------------------------------ transposition table
TTEntry(depth, score, flag, move) ==
  [depth |-> depth, score |-> score, flag |-> flag, best_move |-> move]

get_tt_key(b) == b.pos

\* transposition_table[key] = entry
tt_store(tt, key, entry) ==
  [k \in DOMAIN tt \cup {key} |-> IF k = key THEN entry ELSE tt[k]]

EmptyTT == [k \in {} |-> TTEntry(0, 0, EXACT, None)]

\* stable sort by is_capture, reverse=True: captures first, order kept
sort_captures_first(b, moves) ==
  LET cap(m) == is_capture(b, m)
      quiet(m) == ~is_capture(b, m)
  IN SelectSeq(moves, cap) \o SelectSeq(moves, quiet)

Max(a, b) == IF a >= b THEN a ELSE b

\* ------------------------------------------------------------------ negamax
\* mutant of tt_probe: an EXACT entry is not used for a cutoff
tt_probe_skips_exact(tt, key, depth, alpha, beta) ==
  IF key \in DOMAIN tt /\ tt[key].depth >= depth
  THEN LET entry == tt[key]
       IN IF entry.flag = ALPHA /\ entry.score <= alpha
          THEN [hit |-> TRUE, score |-> alpha]
          ELSE IF entry.flag = BETA /\ entry.score >= beta
          THEN [hit |-> TRUE, score |-> beta]
          ELSE [hit |-> FALSE, score |-> 0]
  ELSE [hit |-> FALSE, score |-> 0]

\* lines 102-110: the probe; hit means negamax returns score at once
tt_probe(tt, key, depth, alpha, beta) ==
  IF key \in DOMAIN tt /\ tt[key].depth >= depth
  THEN LET entry == tt[key]
       IN IF entry.flag = EXACT
          THEN [hit |-> TRUE, score |-> entry.score]
          ELSE IF entry.flag = ALPHA /\ entry.score <= alpha
          THEN [hit |-> TRUE, score |-> alpha]
          ELSE IF entry.flag = BETA /\ entry.score >= beta
          THEN [hit |-> TRUE, score |-> beta]
          ELSE [hit |-> FALSE, score |-> 0]
  ELSE [hit |-> FALSE, score |-> 0]

\* lines 135-139: alpha is the value left by the move loop
tt_flag(max_score, alpha, beta) ==
  IF max_score <= alpha THEN ALPHA
  ELSE IF max_score >= beta THEN BETA
  ELSE EXACT

SearchState(b, tt, n) == [board |-> b, tt |-> tt, nodes |-> n]

RECURSIVE negamax(_, _, _, _)
RECURSIVE negamax_loop(_, _, _, _, _, _, _, _)

LoopState(st, alpha, max_score, best_local) ==
  [st |-> st, alpha |-> alpha, max_score |-> max_score,
   best_local |-> best_local]

\* lines 130-132: alpha is already max(alpha, score)
loop_next(st, depth, alpha, beta, moves, i, max_score, best_local) ==
  IF alpha >= beta
  THEN LoopState(st, alpha, max_score, best_local)
  ELSE negamax_loop(st, depth, alpha, beta, moves, i + 1, max_score,
                    best_local)

\* lines 124-130: r is what negamax returned for the child
loop_body(r, depth, alpha, beta, moves, i, max_score, best_local) ==
  loop_next(SearchState(pop(r.st.board), r.st.tt, r.st.nodes),
            depth, Max(alpha, -r.score), beta, moves, i,
            IF -r.score > max_score THEN -r.score ELSE max_score,
            IF -r.score > max_score THEN moves[i] ELSE best_local)

\* lines 122-132: the move loop from moves[i] on; st is the board, the
\* table and the node counter, all of which the recursion updates
negamax_loop(st, depth, alpha, beta, moves, i, max_score, best_local) ==
  IF i > Len(moves)
  THEN LoopState(st, alpha, max_score, best_local)
  ELSE loop_body(negamax([st EXCEPT !.board = push(st.board, moves[i])],
                         depth - 1, -beta, -alpha),
                 depth, alpha, beta, moves, i, max_score, best_local)

\* lines 134-142: l is the state the move loop ended in
negamax_store(l, key, depth, beta) ==
  [score |-> l.max_score,
   st |-> [l.st EXCEPT !.tt =
             tt_store(l.st.tt, key,
                      TTEntry(depth, l.max_score,
                              tt_flag(l.max_score, l.alpha, beta),
                              l.best_local))]]

\* lines 102-132: probe is the outcome of the table lookup
negamax_probed(probe, st, depth, alpha, beta) ==
  IF probe.hit THEN [score |-> probe.score, st |-> st]
  ELSE IF depth = 0 \/ is_game_over(st.board)
  THEN [score |-> evaluate(st.board), st |-> st]
  ELSE negamax_store(
         negamax_loop(st, depth, alpha, beta,
                      sort_captures_first(st.board, legal_moves(st.board)),
                      1, MinScore, None),
         get_tt_key(st.board), depth, beta)

\* lines 97-142; returns the score and the updated board, table and counter
negamax(st, depth, alpha, beta) ==
  negamax_probed(tt_probe(st.tt, get_tt_key(st.board), depth, alpha, beta),
                 [st EXCEPT !.nodes = @ + 1], depth, alpha, beta)

\* ------------------------------------------------------------------- state
VARIABLES
  board,                \* the global chess.Board: [pos, stack]
  transposition_table,  \* dict: key -> TTEntry
  nodes,                \* global node counter
  stop_search,          \* global cancellation flag
  best_move_global,     \* global best move
  engine_options,       \* dict: option name -> value
  think_thread,         \* 0 (None) or the index in threads of the Thread
  threads,              \* every Thread created so far, in creation order
  cmdpc,                \* where uci_loop is: read, join_*, exited, crashed
  pending,              \* args of a "go" that is waiting in join()
  stdin_left,           \* lines the client has yet to send
  out,                  \* stdout: the lines printed so far
  returned              \* what the direct calls of negamax returned, in order

vars == <<board, transposition_table, nodes, stop_search, best_move_global,
          engine_options, think_thread, threads, cmdpc, pending, stdin_left, out,
          returned>>

\* ------------------------------------------------------------ stdout lines
Line(kind, task, move, depth, n, score) ==
  [kind |-> kind, task |-> task, move |-> move, depth |-> depth,
   nodes |-> n, score |-> score]
TextLine(kind) == Line(kind, 0, None, 0, 0, 0)
InfoLine(t, d, n, score) == Line("info", t, None, d, n, score)
BestmoveLine(t, move) == Line("bestmove", t, move, 0, 0, 0)

\* ------------------------------------------------------------ stdin lines
Digits == <<"0", "1", "2", "3", "4", "5", "6", "7", "8", "9">>
NumTok(n) == Digits[n + 1]
IsNumeric(tok) == tok \in Range(Digits)
\* int(tok) for a numeric token
int(tok) == (CHOOSE i \in 1..Len(Digits) : Digits[i] = tok) - 1

\* the lines a session can feed to the engine, each split at whitespace
Lines ==
  { <<"uci">>, <<"isready">>, <<"xyzzy">>,
    <<"setoption", "name", "Hash", "value", "64">>,
    <<"setoption", "name", "Hash">>,
    <<"ucinewgame">>,
    <<"position">>,
    <<"position", "startpos">>,
    <<"position", "startpos", "moves", "a">>,
    <<"position", "startpos", "moves", "a", "x">>,
    <<"position", "fen", "m1">>,
    <<"position", "fen", "m1a">>,
    <<"position", "fen", "bad">>,
    <<"go">>, <<"go", "depth">>, <<"go", "depth", "abc">>,
    <<"go", "movetime", "0">>, <<"go", "movetime", "5">>,
    <<"go", "depth", "1", "movetime", "5">>,
    <<"stop">>, <<"quit">> }
  \cup { <<"go", "depth", NumTok(n)>> : n \in 0..MaxDepth }

\* the lines that start, stop or disturb a search
ControlLines ==
  { <<"ucinewgame">>, <<"position", "startpos", "moves", "a">>,
    <<"stop">>, <<"quit">> }
  \cup { <<"go", "depth", "2">>, <<"go", "depth", "1", "movetime", "5">> }


Has(tokens, x) == x \in Range(tokens)
\* tokens.index(x) + 1 as a 1-based position: the token after the first x
After(tokens, x) ==
  (CHOOSE i \in 1..Len(tokens) :
     tokens[i] = x /\ \A j \in 1..(i - 1) : tokens[j] # x) + 1
TokensFrom(tokens, from) == SubSeq(tokens, from, Len(tokens))

\* ----------------------------------------------------------------- threads
\* the args dict of a "go": a function on the keys that were given
NoArgs == [k \in {} |-> 0]
\* None where a number is expected (time_limit)
NoLimit == -1

\* A Thread object and the locals of think_thread_fn/search_root running in
\* it.  rootPos, rootStack, disturbed and cancelBy are history fields: the
\* position and the move stack of the board when the thread was created,
\* whether a command wrote the board or the table while it was alive, and
\* which command asked it to stop while it was alive.
NewThread(args, b) ==
  [pc |-> "start", args |-> args, max_depth |-> 0, time_limit |-> NoLimit,
   late |-> FALSE, d |-> 0, moves |-> <<>>, i |-> 0, best |-> None,
   best_score |-> 0,
   rootPos |-> b.pos, rootStack |-> b.stack, disturbed |-> FALSE,
   cancelBy |-> None]

\* the thread has ended: its locals are gone
Ended(th, how) ==
  [NewThread(th.args, [pos |-> th.rootPos, stack |-> th.rootStack]) EXCEPT
     !.pc = how, !.disturbed = th.disturbed, !.cancelBy = th.cancelBy]

\* Thread.is_alive()
is_alive(t) == threads[t].pc \notin {"done", "crashed"}
Alive == {t \in 1..Len(threads) : is_alive(t)}

\* the process has started and no line has been read
Started ==
  /\ board = set_fen(STARTING_FEN)
  /\ transposition_table = EmptyTT
  /\ nodes = 0
  /\ stop_search = FALSE
  /\ best_move_global = None
  /\ engine_options = [k \in {} |-> ""]
  /\ think_thread = 0
  /\ threads = <<>>
  /\ cmdpc = "read"
  /\ pending = NoArgs
  /\ out = <<>>
  /\ returned = <<>>

Init == Started /\ stdin_left = MaxCmds

\* ---------------------------------------------------------------- uci_loop
\* the branch of the if/elif chain that a line takes
Command(line) ==
  IF line = <<"uci">> THEN "uci"
  ELSE IF line = <<"isready">> THEN "isready"
  ELSE IF line[1] = "setoption" THEN "setoption"
  ELSE IF line[1] = "ucinewgame" THEN "ucinewgame"
  ELSE IF line[1] = "position" THEN "position"
  ELSE IF line[1] = "go" THEN "go"
  ELSE IF line = <<"stop">> THEN "stop"
  ELSE IF line = <<"quit">> THEN "quit"
  ELSE "other"

\* readline() returned a line that takes branch cmd
Reads(line, cmd) ==
  /\ cmdpc = "read"
  /\ stdin_left > 0
  /\ Command(line) = cmd
  /\ stdin_left' = stdin_left - 1

SearchVars == <<board, transposition_table, nodes, stop_search,
                best_move_global, think_thread, threads>>

Uci(line) ==
  /\ Reads(line, "uci")
  /\ out' = out \o <<TextLine("id name MiniPyEngine"),
                     TextLine("id author Your Name"), TextLine("uciok")>>
  /\ UNCHANGED <<SearchVars, engine_options, cmdpc, pending>>
  /\ UNCHANGED returned

IsReady(line) ==
  /\ Reads(line, "isready")
  /\ out' = Append(out, TextLine("readyok"))
  /\ UNCHANGED <<SearchVars, engine_options, cmdpc, pending>>
  /\ UNCHANGED returned

\* mutant of SetOption: setting an option also empties the table
SetOption_clears_table(line) ==
  /\ Reads(line, "setoption")
  /\ transposition_table' = EmptyTT
  /\ UNCHANGED <<board, nodes, stop_search, best_move_global, think_thread,
                 threads, engine_options, cmdpc, pending, out>>
  /\ UNCHANGED returned

\* lines 241-250; a missing "name" or "value" raises ValueError, caught
SetOption(line) ==
  /\ Reads(line, "setoption")
  /\ IF Has(line, "name") /\ Has(line, "value")
     THEN LET name_idx == After(line, "name")
              val_idx == After(line, "value")
              name == SubSeq(line, name_idx, val_idx - 2)
              value == TokensFrom(line, val_idx)
          IN engine_options' =
               [k \in DOMAIN engine_options \cup {name} |->
                  IF k = name THEN value ELSE engine_options[k]]
     ELSE UNCHANGED engine_options
  /\ UNCHANGED <<SearchVars, cmdpc, pending, out>>
  /\ UNCHANGED returned

\* a command wrote the board or the table: note it on the live threads
Disturbed ==
  [t \in 1..Len(threads) |->
     IF is_alive(t) THEN [threads[t] EXCEPT !.disturbed = TRUE]
     ELSE threads[t]]

\* mutant of UciNewGame: the board is reset but the table is kept
UciNewGame_keeps_table(line) ==
  /\ Reads(line, "ucinewgame")
  /\ board' = set_fen(STARTING_FEN)
  /\ threads' = Disturbed
  /\ UNCHANGED <<transposition_table, nodes, stop_search, best_move_global,
                 think_thread, engine_options, cmdpc, pending, out>>
  /\ UNCHANGED returned

\* lines 252-255
UciNewGame(line) ==
  /\ Reads(line, "ucinewgame")
  /\ transposition_table' = EmptyTT
  /\ board' = set_fen(STARTING_FEN)
  /\ threads' = Disturbed
  /\ UNCHANGED <<nodes, stop_search, best_move_global, think_thread,
                 engine_options, cmdpc, pending, out>>
  /\ UNCHANGED returned

\* board.push_uci(m) / board.push_san(m) for each m in moves, up to the
\* first one that raises ValueError
RECURSIVE push_moves(_, _, _)
push_moves(b, moves, i) ==
  IF i > Len(moves) THEN [board |-> b, ok |-> TRUE]
  ELSE IF IsLegal(b, moves[i]) THEN push_moves(push(b, moves[i]), moves, i + 1)
  ELSE [board |-> b, ok |-> FALSE]

\* board.set_fen(fen) accepts fen
valid_fen(fen) == Len(fen) = 1 /\ fen[1] \in FenPositions \cup {STARTING_FEN}

\* line 269-277: the fen text and the moves that follow it
fen_of(tokens) ==
  LET fen_tokens == TokensFrom(tokens, 3)
  IN IF Has(fen_tokens, "moves")
     THEN SubSeq(fen_tokens, 1, After(fen_tokens, "moves") - 2)
     ELSE fen_tokens
fen_moves(tokens) ==
  LET fen_tokens == TokensFrom(tokens, 3)
  IN IF Has(fen_tokens, "moves")
     THEN TokensFrom(fen_tokens, After(fen_tokens, "moves"))
     ELSE <<>>

\* lines 257-280: what the handler does to the board, and whether it
\* returns (ok) or raises
position_result(tokens) ==
  IF Len(tokens) < 2 THEN [board |-> board, ok |-> FALSE]
  ELSE IF tokens[2] = "startpos"
  THEN LET moves == IF Has(tokens, "moves")
                    THEN TokensFrom(tokens, After(tokens, "moves"))
                    ELSE <<>>
       IN push_moves(set_fen(STARTING_FEN), moves, 1)
  ELSE IF tokens[2] = "fen"
  THEN IF valid_fen(fen_of(tokens))
       THEN push_moves(set_fen(fen_of(tokens)[1]), fen_moves(tokens), 1)
       ELSE [board |-> board, ok |-> FALSE]
  ELSE [board |-> board, ok |-> TRUE]

\* the handler reaches a statement that writes the board
position_writes(tokens) ==
  /\ Len(tokens) >= 2
  /\ \/ tokens[2] = "startpos"
     \/ tokens[2] = "fen" /\ valid_fen(fen_of(tokens))

Position(line) ==
  /\ Reads(line, "position")
  /\ LET r == position_result(line)
     IN /\ board' = r.board
        /\ cmdpc' = IF r.ok THEN "read" ELSE "crashed"
  /\ threads' = IF position_writes(line) THEN Disturbed ELSE threads
  /\ UNCHANGED <<transposition_table, nodes, stop_search, best_move_global,
                 think_thread, engine_options, pending, out>>
  /\ UNCHANGED returned

\* lines 286-289: the parsed args, or the exception int()/indexing raises
go_arg(tokens, key) ==
  IF ~Has(tokens, key) THEN [ok |-> TRUE, given |-> {}, value |-> 0]
  ELSE IF After(tokens, key) > Len(tokens)
  THEN [ok |-> FALSE, given |-> {}, value |-> 0]
  ELSE IF ~IsNumeric(tokens[After(tokens, key)])
  THEN [ok |-> FALSE, given |-> {}, value |-> 0]
  ELSE [ok |-> TRUE, given |-> {key},
        value |-> int(tokens[After(tokens, key)])]

\* mutant of go_must_join: the new thread is started without join()
go_never_joins == FALSE

\* line 291: think_thread and think_thread.is_alive()
go_must_join == think_thread # 0 /\ is_alive(think_thread)

\* think_thread.join() returns
join_returns == think_thread = 0 \/ ~is_alive(think_thread)

\* the main thread sets stop_search = True: note who asked on the live thread
Cancelled(by) ==
  IF think_thread # 0 /\ is_alive(think_thread)
  THEN [threads EXCEPT ![think_thread].cancelBy =
          IF @ = None THEN by ELSE @]
  ELSE threads

\* lines 295-296: Thread(target=think_thread_fn, args=(args,)).start()
Spawn(ths, args) ==
  /\ threads' = Append(ths, NewThread(args, board))
  /\ think_thread' = Len(ths) + 1

\* lines 282-296 up to join()
Go(line) ==
  /\ Reads(line, "go")
  /\ LET depth == go_arg(line, "depth")
         movetime == go_arg(line, "movetime")
         args == [k \in depth.given \cup movetime.given |->
                    IF k = "depth" THEN depth.value ELSE movetime.value]
     IN IF ~depth.ok \/ ~movetime.ok
        THEN /\ cmdpc' = "crashed"
             /\ UNCHANGED <<stop_search, threads, think_thread, pending>>
        ELSE IF go_must_join
        THEN /\ stop_search' = TRUE
             /\ threads' = Cancelled("go")
             /\ cmdpc' = "join_go"
             /\ pending' = args
             /\ UNCHANGED think_thread
        ELSE /\ Spawn(threads, args)
             /\ UNCHANGED <<stop_search, cmdpc, pending>>
  /\ UNCHANGED <<board, transposition_table, nodes, best_move_global,
                 engine_options, out>>
  /\ UNCHANGED returned

\* lines 294-296: join() returned, the new thread starts
GoJoined ==
  /\ cmdpc = "join_go"
  /\ join_returns
  /\ Spawn(threads, pending)
  /\ pending' = NoArgs
  /\ cmdpc' = "read"
  /\ UNCHANGED <<board, transposition_table, nodes, stop_search,
                 best_move_global, engine_options, stdin_left, out>>
  /\ UNCHANGED returned

\* lines 298-301 up to join()
Stop(line) ==
  /\ Reads(line, "stop")
  /\ stop_search' = TRUE
  /\ threads' = Cancelled("stop")
  /\ cmdpc' = IF think_thread # 0 THEN "join_stop" ELSE "read"
  /\ UNCHANGED <<board, transposition_table, nodes, best_move_global,
                 think_thread, engine_options, pending, out>>
  /\ UNCHANGED returned

StopJoined ==
  /\ cmdpc = "join_stop"
  /\ join_returns
  /\ cmdpc' = "read"
  /\ UNCHANGED <<SearchVars, engine_options, pending, stdin_left, out>>
  /\ UNCHANGED returned

\* lines 304-308 up to join()
Quit(line) ==
  /\ Reads(line, "quit")
  /\ stop_search' = TRUE
  /\ threads' = Cancelled("quit")
  /\ cmdpc' = IF think_thread # 0 THEN "join_quit" ELSE "exited"
  /\ UNCHANGED <<board, transposition_table, nodes, best_move_global,
                 think_thread, engine_options, pending, out>>
  /\ UNCHANGED returned

QuitJoined ==
  /\ cmdpc = "join_quit"
  /\ join_returns
  /\ cmdpc' = "exited"
  /\ UNCHANGED <<SearchVars, engine_options, pending, stdin_left, out>>
  /\ UNCHANGED returned

\* lines 310-312
Other(line) ==
  /\ Reads(line, "other")
  /\ UNCHANGED <<SearchVars, engine_options, cmdpc, pending, out>>
  /\ UNCHANGED returned

\* --------------------------------------------- think_thread_fn, search_root
Set(t, th) == threads' = [threads EXCEPT ![t] = th]
At(t, pc) == t \in 1..Len(threads) /\ threads[t].pc = pc

\* line 204: movetime/1000.0 if movetime else None (kept in milliseconds)
time_limit_of(args) ==
  IF "movetime" \in DOMAIN args /\ args["movetime"] # 0
  THEN args["movetime"] ELSE NoLimit

\* lines 178, 187: time_limit and (time.time() - start_time) > time_limit
\* The wall clock is read only in this comparison; late is the value the
\* comparison of the clock with the limit gave: once true, it stays true.
timed_out(th, late) == th.time_limit # NoLimit /\ th.time_limit # 0 /\ late

\* the values time.time() - start_time > time_limit can take when it is
\* read in a thread that saw it as late before
clock_reads(late) == IF late THEN {TRUE} ELSE {FALSE, TRUE}

\* lines 200-204 and 147-150: the thread starts running think_thread_fn,
\* which calls search_root
ThinkStart(t) ==
  /\ At(t, "start")
  /\ stop_search' = FALSE
  /\ best_move_global' = None
  /\ nodes' = 0
  /\ Set(t, [threads[t] EXCEPT
               !.pc = "depth",
               !.max_depth = IF "depth" \in DOMAIN threads[t].args
                             THEN threads[t].args["depth"] ELSE DefaultDepth,
               !.time_limit = time_limit_of(threads[t].args),
               !.best = None, !.late = FALSE, !.d = 1])
  /\ UNCHANGED <<board, transposition_table, engine_options,
                 think_thread, cmdpc, pending, stdin_left, out>>
  /\ UNCHANGED returned

\* mutant of root_moves: the move list is generated from the start
\* position instead of the board being searched
root_moves_of_startpos(b, tt) ==
  sort_captures_first(set_fen(STARTING_FEN),
                      legal_moves(set_fen(STARTING_FEN)))

\* lines 159-166: the root moves in the order they are searched
root_moves(b, tt) ==
  LET key == get_tt_key(b)
      tt_move == IF key \in DOMAIN tt THEN tt[key].best_move ELSE None
      moves == legal_moves(b)
      rest(m) == m # tt_move
      hinted == IF tt_move # None /\ tt_move \in Range(moves)
                THEN <<tt_move>> \o SelectSeq(moves, rest) ELSE moves
  IN sort_captures_first(b, hinted)

\* lines 152-166: the head of the depth loop
DepthStart(t) ==
  /\ At(t, "depth")
  /\ LET th == threads[t]
     IN IF th.d > th.max_depth \/ stop_search
        THEN Set(t, [th EXCEPT !.pc = "finish"])
        ELSE Set(t, [th EXCEPT !.pc = "move", !.best_score = MinScore,
                               !.moves = root_moves(board,
                                                    transposition_table),
                               !.i = 1])
  /\ UNCHANGED <<board, transposition_table, nodes, stop_search,
                 best_move_global, engine_options, think_thread, cmdpc,
                 pending, stdin_left, out>>
  /\ UNCHANGED returned

\* lines 168-170: the head of the root move loop, and board.push(mv)
MoveStart(t) ==
  /\ At(t, "move")
  /\ LET th == threads[t]
     IN IF th.i > Len(th.moves) \/ stop_search
        THEN /\ Set(t, [th EXCEPT !.pc = "report"])
             /\ UNCHANGED board
        ELSE /\ IsLegal(board, th.moves[th.i])
             /\ board' = push(board, th.moves[th.i])
             /\ Set(t, [th EXCEPT !.pc = "eval"])
  /\ UNCHANGED <<transposition_table, nodes, stop_search, best_move_global,
                 engine_options, think_thread, cmdpc, pending, stdin_left, out>>
  /\ UNCHANGED returned

\* line 170 when a command replaced the position after the move list was
\* made: push() of a move that is not legal in the board either fails its
\* assertion or leaves some other position on the board
MoveStartIllegal(t) ==
  /\ At(t, "move")
  /\ LET th == threads[t]
     IN /\ th.i <= Len(th.moves)
        /\ ~stop_search
        /\ ~IsLegal(board, th.moves[th.i])
        /\ \/ /\ Set(t, Ended(th, "crashed"))
              /\ UNCHANGED board
           \/ /\ \E p \in Positions :
                   board' = [pos |-> p, stack |-> Append(board.stack,
                                                         board.pos)]
              /\ Set(t, [th EXCEPT !.pc = "eval"])
  /\ UNCHANGED <<transposition_table, nodes, stop_search, best_move_global,
                 engine_options, think_thread, cmdpc, pending, stdin_left, out>>
  /\ UNCHANGED returned

\* mutant of root_after_negamax: the time check comes before board.pop(),
\* so a timeout leaves the root move on the board
root_breaks_before_pop(t, th, r, better, next_pc) ==
  /\ transposition_table' = r.st.tt
  /\ nodes' = r.st.nodes
  /\ \E late \in clock_reads(th.late) :
       IF timed_out(th, late)
       THEN /\ board' = r.st.board
            /\ stop_search' = TRUE
            /\ Set(t, [th EXCEPT !.pc = "report", !.late = late])
       ELSE IF r.st.board.stack = <<>>
       THEN /\ board' = r.st.board
            /\ Set(t, Ended(th, "crashed"))
            /\ UNCHANGED stop_search
       ELSE /\ board' = pop(r.st.board)
            /\ Set(t, [th EXCEPT
                         !.best_score = IF better THEN -r.score ELSE @,
                         !.best = IF better THEN th.moves[th.i] ELSE @,
                         !.pc = next_pc, !.i = @ + 1])
            /\ UNCHANGED stop_search

\* lines 171-180 after negamax returned r: board.pop(), the comparison and
\* the time check.  pop() on an empty stack raises IndexError.
root_after_negamax(t, th, r, better, next_pc) ==
  /\ transposition_table' = r.st.tt
  /\ nodes' = r.st.nodes
  /\ IF r.st.board.stack = <<>>
     THEN /\ board' = r.st.board
          /\ Set(t, Ended(th, "crashed"))
          /\ UNCHANGED stop_search
     ELSE /\ board' = pop(r.st.board)
          /\ \E late \in clock_reads(th.late) :
               IF timed_out(th, late)
               THEN /\ stop_search' = TRUE
                    /\ Set(t, [th EXCEPT
                                 !.best_score = IF better THEN -r.score ELSE @,
                                 !.best = IF better THEN th.moves[th.i] ELSE @,
                                 !.pc = "report", !.late = late])
               ELSE /\ Set(t, [th EXCEPT
                                 !.best_score = IF better THEN -r.score ELSE @,
                                 !.best = IF better THEN th.moves[th.i] ELSE @,
                                 !.pc = next_pc, !.i = @ + 1])
                    /\ UNCHANGED stop_search

\* line 173
root_better(r, th) == -r.score > th.best_score

root_eval(t, th, r) ==
  root_after_negamax(t, th, r, root_better(r, th),
                     IF th.i + 1 > Len(th.moves) THEN "report" ELSE "move")

\* lines 171-180: negamax below the root move, then the rest of the loop
\* body
MoveEval(t) ==
  /\ At(t, "eval")
  /\ root_eval(t, threads[t],
               negamax(SearchState(board, transposition_table, nodes),
                       threads[t].d - 1, -RootBeta, -RootAlpha))
  /\ UNCHANGED <<best_move_global, engine_options, think_thread, cmdpc,
                 pending, stdin_left, out>>
  /\ UNCHANGED returned

\* lines 182-188: the end of one depth iteration
DepthReport(t) ==
  /\ At(t, "report")
  /\ LET th == threads[t]
     IN /\ best_move_global' = th.best
        /\ out' = Append(out, InfoLine(t, th.d, nodes, th.best_score))
        /\ \E late \in clock_reads(th.late) :
             IF timed_out(th, late)
             THEN Set(t, [th EXCEPT !.pc = "finish", !.late = late])
             ELSE Set(t, [th EXCEPT !.pc = "depth", !.d = @ + 1])
  /\ UNCHANGED <<board, transposition_table, nodes, stop_search,
                 engine_options, think_thread, cmdpc, pending, stdin_left>>
  /\ UNCHANGED returned

\* mutant of bestmove_choices: no fallback, the null move whenever
\* search_root returned None
bestmove_no_fallback(best, b) == IF best # None THEN {best} ELSE {"0000"}

\* lines 205-210: the moves "bestmove" may name, given search_root's result
bestmove_choices(best, b) ==
  IF best # None THEN {best}
  ELSE IF legal_moves(b) # <<>> THEN Range(legal_moves(b))
  ELSE {"0000"}

\* lines 190, 205-211: search_root returns, the bestmove line is printed
ThinkFinish(t) ==
  /\ At(t, "finish")
  /\ \E m \in bestmove_choices(threads[t].best, board) :
       out' = Append(out, BestmoveLine(t, m))
  /\ Set(t, Ended(threads[t], "done"))
  /\ UNCHANGED <<board, transposition_table, nodes, stop_search,
                 best_move_global, engine_options, think_thread, cmdpc,
                 pending, stdin_left>>
  /\ UNCHANGED returned

\* ------------------------------------------------------------ specification
\* a step of a live search thread
ThreadStep ==
  \/ \E t \in 1..Len(threads) : ThinkStart(t)
  \/ \E t \in 1..Len(threads) : DepthStart(t)
  \/ \E t \in 1..Len(threads) : MoveStart(t)
  \/ \E t \in 1..Len(threads) : MoveStartIllegal(t)
  \/ \E t \in 1..Len(threads) : MoveEval(t)
  \/ \E t \in 1..Len(threads) : DepthReport(t)
  \/ \E t \in 1..Len(threads) : ThinkFinish(t)

\* a session of MaxCmds lines, any of Lines
Next ==
  \/ \E line \in Lines : Uci(line)
  \/ \E line \in Lines : IsReady(line)
  \/ \E line \in Lines : SetOption(line)
  \/ \E line \in Lines : UciNewGame(line)
  \/ \E line \in Lines : Position(line)
  \/ \E line \in Lines : Go(line)
  \/ GoJoined
  \/ \E line \in Lines : Stop(line)
  \/ StopJoined
  \/ \E line \in Lines : Quit(line)
  \/ QuitJoined
  \/ \E line \in Lines : Other(line)
  \/ ThreadStep

Spec == Init /\ [][Next]_vars

\* a session of MaxControlCmds lines, each of ControlLines
InitControl == Started /\ stdin_left = MaxControlCmds

NextControl ==
  \/ \E line \in ControlLines : UciNewGame(line)
  \/ \E line \in ControlLines : Position(line)
  \/ \E line \in ControlLines : Go(line)
  \/ GoJoined
  \/ \E line \in ControlLines : Stop(line)
  \/ StopJoined
  \/ \E line \in ControlLines : Quit(line)
  \/ QuitJoined
  \/ ThreadStep

SpecControl == InitControl /\ [][NextControl]_vars

\* ------------------------------------------- negamax called on its own
\* A direct call negamax(board, depth, alpha, beta), as search_root makes it
\* at line 171 and negamax itself at line 124, on the global board and
\* table, with the node counter at 0.  r is what the call returned.
NegamaxReturns(r) ==
  /\ board' = r.st.board
  /\ transposition_table' = r.st.tt
  /\ nodes' = r.st.nodes
  /\ returned' = Append(returned, r.score)
  /\ UNCHANGED <<stop_search, best_move_global, engine_options, think_thread,
                 threads, cmdpc, pending, stdin_left, out>>

NegamaxCall(depth, alpha, beta) ==
  NegamaxReturns(negamax(SearchState(board, transposition_table, 0),
                         depth, alpha, beta))

\* the board is set up for the next call
SetUp(p) ==
  /\ board' = set_fen(p)
  /\ board' # board
  /\ UNCHANGED <<transposition_table, nodes, stop_search, best_move_global,
                 engine_options, think_thread, threads, cmdpc, pending,
                 stdin_left, out, returned>>

\* the windows of the calls: the full window of search_root and narrower
\* ones around the scores of the game
WindowBounds == {-RootBeta, 0, 200, -RootAlpha}
Windows == {win \in WindowBounds \X WindowBounds : win[1] < win[2]}
CallDepths == 0..MaxDepth

\* no engine thread, no input: only the board and the table matter
Bare ==
  /\ nodes = 0
  /\ stop_search = FALSE
  /\ best_move_global = None
  /\ engine_options = [k \in {} |-> ""]
  /\ think_thread = 0
  /\ threads = <<>>
  /\ cmdpc = "read"
  /\ pending = NoArgs
  /\ stdin_left = 0
  /\ out = <<>>
  /\ returned = <<>>

\* MaxCalls calls of negamax one after the other on an initially empty
\* table: the table holds what earlier calls left in it
InitNegamax ==
  /\ Bare
  /\ board \in {set_fen(p) : p \in Positions}
  /\ transposition_table = EmptyTT

NextNegamax ==
  \/ \E depth \in CallDepths, win \in Windows :
       Len(returned) < MaxCalls /\ NegamaxCall(depth, win[1], win[2])
  \/ \E p \in Positions : Len(returned) < MaxCalls /\ SetUp(p)

SpecNegamax == InitNegamax /\ [][NextNegamax]_vars

\* one call of negamax on a table that holds one entry, of any kind
InjectedScores == {-300, 80, 500}
InjectedTables ==
  { tt_store(EmptyTT, p, TTEntry(d, sc, f, None)) :
      p \in Positions, d \in CallDepths, sc \in InjectedScores,
      f \in {EXACT, ALPHA, BETA} }

InitProbe ==
  /\ Bare
  /\ board \in {set_fen(p) : p \in Positions}
  /\ transposition_table \in InjectedTables

NextProbe ==
  \E depth \in CallDepths, win \in Windows :
    returned = <<>> /\ NegamaxCall(depth, win[1], win[2])

SpecProbe == InitProbe /\ [][NextProbe]_vars

\* a search task running alone, after "go depth D", on any position and on
\* a table that holds nothing or one entry for that position, whose best
\* move is a move of the position or "x", a move that is not legal in it
RootTables(p) ==
  {EmptyTT} \cup
  { tt_store(EmptyTT, p, TTEntry(d, sc, ALPHA, m)) :
      d \in 1..MaxDepth, sc \in InjectedScores,
      m \in Range(Game[p].moves) \cup {"x"} }

InitRoot ==
  /\ \E p \in Positions :
       /\ board = set_fen(p)
       /\ transposition_table \in RootTables(p)
  /\ \E D \in 1..MaxDepth :
       threads = <<NewThread([k \in {"depth"} |-> D], board)>>
  /\ think_thread = 1
  /\ nodes = 0
  /\ stop_search = FALSE
  /\ best_move_global = None
  /\ engine_options = [k \in {} |-> ""]
  /\ cmdpc = "read"
  /\ pending = NoArgs
  /\ stdin_left = 0
  /\ out = <<>>
  /\ returned = <<>>

NextRoot ==
  \E t \in 1..Len(threads) :
    \/ ThinkStart(t)
    \/ DepthStart(t)
    \/ MoveStart(t)
    \/ MoveEval(t)
    \/ DepthReport(t)
    \/ ThinkFinish(t)

SpecRoot == InitRoot /\ [][NextRoot]_vars

\* ------------------------------------------------------------------ claims
\* the handler of one input line, up to its end or its join()
Handle(line) ==
  \/ Uci(line) \/ IsReady(line) \/ SetOption(line) \/ UciNewGame(line)
  \/ Position(line) \/ Go(line) \/ Stop(line) \/ Quit(line) \/ Other(line)

\* the number of bestmove lines thread t has printed in stdout o
BestmovesIn(o, t) ==
  Cardinality({k \in 1..Len(o) : o[k].kind = "bestmove" /\ o[k].task = t})
InfosIn(o, t) ==
  Cardinality({k \in 1..Len(o) : o[k].kind = "info" /\ o[k].task = t})

\* the go that created thread t asked for at least one depth iteration
DepthAtLeastOne(t) ==
  "depth" \in DOMAIN threads[t].args => threads[t].args["depth"] >= 1

\* C1: every search task prints exactly one bestmove line: never two, and
\* one by the time the task has ended, whatever commands arrive meanwhile.
C1_OneBestmovePerTask ==
  \A t \in 1..Len(threads) :
    /\ BestmovesIn(out, t) <= 1
    /\ ~is_alive(t) => BestmovesIn(out, t) = 1

\* C2: at most one search task is alive in every reachable state.
C2_AtMostOneSearchAlive == Cardinality(Alive) <= 1

\* C2 witness: a go arrived while task 1 was running, asked it to stop,
\* joined it, and task 2 is now running alone.
C2_Witness ==
  /\ Len(threads) >= 2
  /\ threads[1].cancelBy = "go"
  /\ ~is_alive(1)
  /\ is_alive(2)

\* C3: the command thread writes the board or the transposition table
\* (ucinewgame, position) only when no search task is alive.
C3_NoWriteWhileSearching ==
  [][(\E line \in Lines :
        \/ UciNewGame(line)
        \/ Position(line) /\ position_writes(line))
     => Alive = {}]_vars

\* thread t starts searching a root move
RootMoveStarted(t) ==
  /\ MoveStart(t) \/ MoveStartIllegal(t)
  /\ threads'[t].pc = "eval"

\* C4: once cancellation has been requested of a live task (by stop, quit
\* or a superseding go, at any moment after the task was spawned), the task
\* starts no further root move.
C4_CancelStopsRootMoves ==
  [][\A t \in 1..Len(threads) :
       threads[t].cancelBy # None => ~RootMoveStarted(t)]_vars

\* the handler of a stop or quit line returns
StopOrQuitDone ==
  \/ StopJoined
  \/ QuitJoined
  \/ \E line \in Lines : (Stop(line) \/ Quit(line)) /\ think_thread = 0

\* C5: when the handler of stop or quit returns, no search task is alive
\* and the task that was active when the line was read has printed its
\* bestmove line.
C5_IdleAfterStopOrQuit ==
  [][StopOrQuitDone =>
       /\ \A t \in 1..Len(threads) : threads'[t].pc \in {"done", "crashed"}
       /\ (think_thread # 0
           /\ threads[think_thread].cancelBy \in {"stop", "quit"})
          => BestmovesIn(out', think_thread) = 1]_vars

\* C6 as stated: when search_root returns None the task prints
\* "bestmove 0000".
C6_NullMoveWhenNoMove ==
  [][\A t \in 1..Len(threads) :
       (ThinkFinish(t) /\ threads[t].best = None)
       => out'[Len(out')].move = "0000"]_vars

\* C6 as amended: search_root returns None when the go admits no depth
\* iteration or the position has no legal move; whenever it returns None
\* the task prints one bestmove line, which is 0000 if the board has no
\* legal move and otherwise names a legal move of the board (the random
\* fallback).
C6_FallbackBestmove ==
  [][\A t \in 1..Len(threads) :
       ThinkFinish(t) =>
         /\ (~DepthAtLeastOne(t)
             \/ (~threads[t].disturbed
                 /\ Game[threads[t].rootPos].moves = <<>>))
            => threads[t].best = None
         /\ threads[t].best = None =>
              /\ Len(out') = Len(out) + 1
              /\ out'[Len(out')].kind = "bestmove"
              /\ out'[Len(out')].task = t
              /\ IF legal_moves(board) = <<>>
                 THEN out'[Len(out')].move = "0000"
                 ELSE out'[Len(out')].move \in Range(legal_moves(board))]_vars

\* C6 witness: a task has printed a bestmove that is not 0000 although it
\* completed no depth iteration (it printed no info line and was not
\* disturbed): the fallback chose a legal move.
C6_Witness ==
  \E k \in 1..Len(out) :
    /\ out[k].kind = "bestmove"
    /\ out[k].move # "0000"
    /\ InfosIn(out, out[k].task) = 0
    /\ ~threads[out[k].task].disturbed

\* the line is a position command whose move list has a bad move
HasBadMove(line) ==
  /\ Command(line) = "position"
  /\ position_writes(line)
  /\ ~position_result(line).ok

\* C7: a position command with a bad move leaves the board at the last
\* position reached, and the command loop goes on reading.
C7_BadMoveIsNotFatal ==
  [][\A line \in Lines :
       (Position(line) /\ HasBadMove(line))
       => /\ board' = position_result(line).board
          /\ cmdpc' = "read"]_vars

\* malformed input: an unknown command, setoption without value, position
\* without argument, go depth without or with a non-numeric value
MalformedLines ==
  { <<"xyzzy">>, <<"setoption", "name", "Hash">>, <<"position">>,
    <<"go", "depth">>, <<"go", "depth", "abc">> }

\* C8: a malformed line prints nothing, changes no state and leaves the
\* command loop reading.
C8_MalformedInputIgnored ==
  [][\A line \in MalformedLines :
       Handle(line) =>
         /\ out' = out
         /\ UNCHANGED <<board, transposition_table, engine_options,
                        stop_search, threads, think_thread>>
         /\ cmdpc' = "read"]_vars

MatingMoves(p) ==
  {m \in Range(Game[p].moves) : is_checkmate(Game[p].next[m])}

\* C10: in a position with a mating move, a search of depth >= 1 that runs
\* undisturbed, uncancelled and without time limit prints a mating move.
C10_MateInOneFound ==
  \A k \in 1..Len(out) :
    out[k].kind = "bestmove" =>
      LET t == out[k].task
      IN (/\ MatingMoves(threads[t].rootPos) # {}
          /\ DepthAtLeastOne(t)
          /\ ~threads[t].disturbed
          /\ threads[t].cancelBy = None
          /\ "movetime" \notin DOMAIN threads[t].args)
         => out[k].move \in MatingMoves(threads[t].rootPos)

\* C11: when ucinewgame is handled with no search task alive, no key that
\* was stored in the transposition table is in it afterwards and the board
\* is the start position with an empty move stack.
C11_NewGameClears ==
  [][\A line \in Lines :
       (UciNewGame(line) /\ Alive = {})
       => /\ \A key \in DOMAIN transposition_table :
               key \notin DOMAIN transposition_table'
          /\ DOMAIN transposition_table' = {}
          /\ board' = [pos |-> STARTING_FEN, stack |-> <<>>]]_vars

\* C11 witness: a search of depth 2 from a position other than the start
\* has finished undisturbed (so it filled the table), and now the table is
\* empty and the board is the start position: ucinewgame came after it.
C11_Witness ==
  \E k \in 1..Len(out) :
    /\ out[k].kind = "info"
    /\ out[k].depth = 2
    /\ threads[out[k].task].pc = "done"
    /\ ~threads[out[k].task].disturbed
    /\ threads[out[k].task].rootPos # STARTING_FEN
    /\ DOMAIN transposition_table = {}
    /\ board = [pos |-> STARTING_FEN, stack |-> <<>>]

\* C12: a depth iteration prints its info line only if at least one root
\* move was evaluated in it.  best_score is -9999999 from the head of the
\* iteration until the first root move is evaluated, and above it after.
C12_InfoOnlyAfterRootMove ==
  [][\A t \in 1..Len(threads) :
       DepthReport(t) => threads[t].best_score > MinScore]_vars

\* C13: uci, isready and setoption complete in one step of the command
\* thread and leave the board, the transposition table, the cancellation
\* flag and the search threads as they were.
C13_InfoCommandsLeaveSearch ==
  [][\A line \in Lines :
       (Uci(line) \/ IsReady(line) \/ SetOption(line))
       => /\ UNCHANGED <<board, transposition_table, stop_search,
                         think_thread, threads>>
          /\ cmdpc' = "read"]_vars

\* C13 witness: isready was answered after a search thread that is still
\* alive had printed an info line: an informational
\* command was handled while Searching.
C13_Witness ==
  \E j, k \in 1..Len(out) :
    /\ j < k
    /\ out[j].kind = "info"
    /\ is_alive(out[j].task)
    /\ out[k].kind = "readyok"

\* the call negamax(board, depth, alpha, beta) runs its move loop to the
\* end and stores an entry: no table cutoff, depth left, game not over
CompletesLoop(depth, alpha, beta) ==
  /\ depth >= 1
  /\ ~is_game_over(board)
  /\ ~tt_probe(transposition_table, get_tt_key(board), depth,
               alpha, beta).hit

\* the bound kind of a score against the window the call was given
Classify(score, alpha, beta) ==
  IF score <= alpha THEN ALPHA
  ELSE IF score >= beta THEN BETA
  ELSE EXACT

\* C14: the entry a negamax invocation stores after its move loop has the
\* flag that classifies the stored score against the alpha and beta the
\* invocation was given: ALPHA (upper bound) if score <= alpha, BETA (lower
\* bound) if score >= beta, EXACT if strictly between.
C14_BoundClassification ==
  [][\A depth \in CallDepths, win \in Windows :
       (NegamaxCall(depth, win[1], win[2])
        /\ CompletesLoop(depth, win[1], win[2]))
       => transposition_table'[get_tt_key(board)].flag
          = Classify(transposition_table'[get_tt_key(board)].score,
                     win[1], win[2])]_vars

\* the largest element of a set of integers
MaxOf(S) == CHOOSE x \in S : \A y \in S : x >= y

\* the negamax value of position p searched d plies deep with neither
\* table nor pruning
RECURSIVE minimax(_, _)
minimax(p, d) ==
  IF d = 0 \/ Game[p].over THEN evaluate(set_fen(p))
  ELSE MaxOf({-minimax(Game[p].next[m], d - 1) : m \in Range(Game[p].moves)})

\* C15: whatever earlier calls left in the table, a full-window call of
\* negamax to depth d >= 1 returns the plain minimax value of depth d.
C15_TableKeepsScore ==
  [][\A depth \in 1..MaxDepth :
       NegamaxCall(depth, -RootBeta, -RootAlpha)
       => returned'[Len(returned')] = minimax(board.pos, depth)]_vars

\* the table holds an EXACT entry for the board, stored at least depth deep
HasExact(depth) ==
  /\ get_tt_key(board) \in DOMAIN transposition_table
  /\ transposition_table[get_tt_key(board)].flag = EXACT
  /\ transposition_table[get_tt_key(board)].depth >= depth

\* C19: if the table holds an EXACT entry for the position with stored depth
\* >= d, negamax(P, d, alpha, beta) returns the stored score, having counted
\* one node only (no recursion) and left the table and the board as they
\* were, for every window.
C19_ExactCutoff ==
  [][\A depth \in CallDepths, win \in Windows :
       (NegamaxCall(depth, win[1], win[2]) /\ HasExact(depth))
       => /\ returned'
             = <<transposition_table[get_tt_key(board)].score>>
          /\ transposition_table' = transposition_table
          /\ board' = board
          /\ nodes' = 1]_vars

\* C19 witness: a call on a position that has legal moves returned the score
\* of the EXACT entry of depth >= 1 the table holds for it, which is not the
\* static evaluation, and counted a single node.
C19_Witness ==
  /\ Len(returned) = 1
  /\ HasExact(1)
  /\ ~is_game_over(board)
  /\ legal_moves(board) # <<>>
  /\ returned[1] = transposition_table[get_tt_key(board)].score
  /\ returned[1] # evaluate(board)
  /\ nodes = 1

\* cancellation has been requested of thread t while it was alive: by a
\* command, or by its own deadline check
Requested(t) == threads[t].cancelBy # None \/ threads[t].late

\* C16: once cancellation has been requested of a live task and the flag is
\* set, the flag stays set for as long as that task is alive.
C16_FlagIsSticky ==
  [][\A t \in 1..Len(threads) :
       (is_alive(t) /\ Requested(t) /\ stop_search)
       => (stop_search' \/ threads'[t].pc \in {"done", "crashed"})]_vars

\* for thread t, whose go gave a movetime, the deadline has been found
\* passed at a boundary: the clock comparison said so (late), or the
\* movetime is 0 and a root move has been evaluated since the start
DeadlineFoundPassed(t) ==
  /\ "movetime" \in DOMAIN threads[t].args
  /\ \/ threads[t].late
     \/ threads[t].args["movetime"] = 0 /\ threads[t].best # None

\* thread t enters the root move loop of a further depth
DepthStarted(t) == DepthStart(t) /\ threads'[t].pc = "move"

\* C18: for a go with movetime T >= 0, once the deadline start + T has been
\* found passed at a root-move or depth boundary, the task starts no further
\* root move and no deeper iteration.
C18_DeadlineStopsSearch ==
  [][\A t \in 1..Len(threads) :
       DeadlineFoundPassed(t)
       => ~RootMoveStarted(t) /\ ~DepthStarted(t)]_vars

\* C20: when a search task that no position-changing command disturbed
\* prints its bestmove, the board and its move stack are those of the moment
\* the task was created.
C20_SearchRestoresPosition ==
  [][\A t \in 1..Len(threads) :
       (ThinkFinish(t) /\ ~threads[t].disturbed)
       => board' = [pos |-> threads[t].rootPos,
                    stack |-> threads[t].rootStack]]_vars

\* C20 witness: a task created on a board with a move history was asked to
\* stop, completed a depth iteration, ended undisturbed, and the board is as
\* it was when the task was created.
C20_Witness ==
  \E t \in 1..Len(threads) :
    /\ threads[t].pc = "done"
    /\ ~threads[t].disturbed
    /\ threads[t].cancelBy = "stop"
    /\ threads[t].rootStack # <<>>
    /\ InfosIn(out, t) >= 1
    /\ board = [pos |-> threads[t].rootPos, stack |-> threads[t].rootStack]

\* the best move the table holds for the board, or None
HintOf(b, tt) ==
  IF get_tt_key(b) \in DOMAIN tt THEN tt[get_tt_key(b)].best_move ELSE None

\* the hint is a legal move of the board
HintIsLegal(b, tt) == HintOf(b, tt) # None /\ IsLegal(b, HintOf(b, tt))

\* C17: in every depth iteration, if the table holds a best move for the
\* root position and it is legal, that move is the first root move; among
\* the other root moves every capture comes before every non-capture.
C17_RootOrdering ==
  [][\A t \in 1..Len(threads) :
       DepthStarted(t) =>
         LET moves == threads'[t].moves
             hint == HintOf(board, transposition_table)
             legal == HintIsLegal(board, transposition_table)
         IN /\ legal => moves[1] = hint
            /\ \A i, j \in 1..Len(moves) :
                 (/\ i < j
                  /\ ~(legal /\ hint \in {moves[i], moves[j]})
                  /\ is_capture(board, moves[j]))
                 => is_capture(board, moves[i])]_vars

====
